---- MODULE Spec2Model ----
(***************************************************************************)
(* Model of tool/function.go: the typed function adapter (FunctionTool)    *)
(* and the request builder (LLMRequest.AppendInstructions / AppendTools).  *)
(*                                                                         *)
(* Go pointers are modelled as sequences of length 0 (nil) or 1.           *)
(* Go strings that are concatenated (instruction text) are sequences of    *)
(* one-character strings; names and descriptions are TLA+ strings.         *)
(***************************************************************************)
EXTENDS Integers, Sequences, FiniteSets, TLC

VARIABLES
    Tools,            \* LLMRequest.Tools: nil or a map name -> Tool
    GenerateConfig,   \* LLMRequest.GenerateConfig: nil or a config
    fresh,            \* history: the request was created without config and registry
    order,            \* history: names in the order they were put in Tools
    last,             \* history: the last request call, its outcome and pre-state
    joint,            \* history: what one AppendInstructions(A, B) call would have left
    processed,        \* history: adapters whose ProcessRequest returned nil
    ctor,             \* the arguments NewFunctionTool was called with
    adapter,          \* the FunctionTool NewFunctionTool returned
    runs,             \* the Run calls on adapter, one per caller
    obs               \* the value the last accessor call on adapter returned

vars ==
    <<Tools, GenerateConfig, fresh, order, last, joint, processed, ctor, adapter, runs, obs>>

reqVars == <<Tools, GenerateConfig, fresh, order, last, joint, processed>>

toolVars == <<ctor, adapter, runs, obs>>

\* ---------------------------------------------------------------- bounds

MaxBatch == 2

MaxTextLen == 5

NumRuns == 2

\* -------------------------------------------------------------- pointers

NilPtr == <<>>

Ptr(x) == <<x>>

IsNil(p) == Len(p) = 0

Deref(p) == p[1]

\* ------------------------------------------------------- schema resolver

\* The type shapes the handlers are instantiated with.
AddArgs == "AddArgs"

SumResult == "SumResult"

\* jsonschema.For[T]: the schema inferred from the shape of T.
SchemaFor(T) ==
    IF T = AddArgs
    THEN [ok |-> TRUE,
          schema |-> [title |-> "", props |-> [A |-> "integer", B |-> "integer"],
                      required |-> {"A", "B"}, ref |-> ""]]
    ELSE IF T = SumResult
    THEN [ok |-> TRUE,
          schema |-> [title |-> "", props |-> [Sum |-> "integer"],
                      required |-> {"Sum"}, ref |-> ""]]
    ELSE [ok |-> FALSE,
          schema |-> [title |-> "", props |-> [unsupported |-> T], required |-> {},
                      ref |-> ""]]

\* An override that restates the inferred input shape under another title.
InputOverride ==
    [title |-> "in", props |-> [A |-> "integer", B |-> "integer"],
     required |-> {"A", "B"}, ref |-> ""]

\* An override that deliberately does not match the handler's result shape.
MismatchedOutput ==
    [title |-> "out", props |-> [Total |-> "integer"], required |-> {"Total"}, ref |-> ""]

\* An override the schema engine cannot resolve: a reference to nothing.
MalformedSchema ==
    [title |-> "malformed", props |-> [A |-> "integer", B |-> "integer"],
     required |-> {"A", "B"}, ref |-> "#/$defs/missing"]

\* (*jsonschema.Schema).Resolve(nil): the resolved artifact or an error.
Resolve(schema) ==
    IF schema.ref = ""
    THEN [resolved |-> Ptr([schema |-> schema]), err |-> NilPtr]
    ELSE [resolved |-> NilPtr, err |-> Ptr([kind |-> "resolve"])]

resolvedSchema(T, override) ==
    IF ~IsNil(override)
    THEN Resolve(Deref(override))
    ELSE LET inferred == SchemaFor(T)
         IN  IF ~inferred.ok
             THEN [resolved |-> NilPtr, err |-> Ptr([kind |-> "infer"])]
             ELSE Resolve(inferred.schema)

\* ------------------------------------------------------------ the adapter

NewFunctionTool(cfg, handler) ==
    LET i == resolvedSchema(AddArgs, cfg.InputSchema)
        o == resolvedSchema(SumResult, cfg.OutputSchema)
    IN  IF ~IsNil(i.err)
        THEN [tool |-> NilPtr, err |-> Ptr([kind |-> "input schema", cause |-> Deref(i.err)])]
        ELSE IF ~IsNil(o.err)
        THEN [tool |-> NilPtr, err |-> Ptr([kind |-> "output schema", cause |-> Deref(o.err)])]
        ELSE [tool |-> Ptr([kind |-> "function",
                            cfg |-> cfg,
                            inputSchema |-> i.resolved,
                            outputSchema |-> o.resolved,
                            handler |-> handler]),
              err |-> NilPtr]

Description(f) == f.cfg.Description

Name(f) == f.cfg.Name

FunctionDeclaration(f) ==
    Ptr([Name |-> Name(f),
         Description |-> Description(f),
         ParametersJsonSchema |->
             IF ~IsNil(f.inputSchema) THEN Ptr(Deref(f.inputSchema).schema) ELSE NilPtr,
         ResponseJsonSchema |->
             IF ~IsNil(f.outputSchema) THEN Ptr(Deref(f.outputSchema).schema) ELSE NilPtr])

\* ------------------------------------------------------- the tool universe

Handlers == {"add", "div"}

Configs ==
    { [Name |-> n, Description |-> d, InputSchema |-> i, OutputSchema |-> o] :
        n \in {"", "add"}, d \in {"sum", "quotient"},
        i \in {NilPtr, Ptr(InputOverride), Ptr(MalformedSchema)},
        o \in {NilPtr, Ptr(MismatchedOutput)} }

\* Every adapter NewFunctionTool can return for the configurations above.
Adapters ==
    { Deref(NewFunctionTool(c, h).tool) :
        <<c, h>> \in { p \in Configs \X Handlers : IsNil(NewFunctionTool(p[1], p[2]).err) } }

\* A nil Tool interface value.
NilTool == [kind |-> "nil"]

\* Sibling tool kinds: one that is no itype.FunctionTool, one that is and
\* offers a declaration, and one that is, offers none, and is named like
\* the adapter.
SearchTool == [kind |-> "sibling", name |-> "search", isFunctionTool |-> FALSE, decl |-> NilPtr]

ExitTool ==
    [kind |-> "sibling", name |-> "exit", isFunctionTool |-> TRUE,
     decl |-> Ptr([Name |-> "exit", Description |-> "leave the loop",
                   ParametersJsonSchema |-> NilPtr, ResponseJsonSchema |-> NilPtr])]

AddSibling == [kind |-> "sibling", name |-> "add", isFunctionTool |-> TRUE, decl |-> NilPtr]

\* The adapters a request is offered: one named "add" and a nameless one.
RequestAdapters ==
    { f \in Adapters :
        /\ f.handler = "add"
        /\ f.cfg.Description = "sum"
        /\ IsNil(f.cfg.InputSchema) /\ IsNil(f.cfg.OutputSchema) }

ToolUniverse == RequestAdapters \cup {NilTool, SearchTool, ExitTool, AddSibling}

ToolName(tool) == IF tool.kind = "function" THEN Name(tool) ELSE tool.name

IsFunctionTool(tool) ==
    IF tool.kind = "function" THEN TRUE ELSE tool.isFunctionTool

ToolDeclaration(tool) ==
    IF tool.kind = "function" THEN FunctionDeclaration(tool) ELSE tool.decl

\* ------------------------------------------------------------ text helpers

SEP == <<"\n", "\n">>

RECURSIVE Join(_, _)
Join(elems, sep) ==
    IF Len(elems) = 0 THEN <<>>
    ELSE IF Len(elems) = 1 THEN elems[1]
    ELSE elems[1] \o sep \o Join(Tail(elems), sep)

Instructions == { <<>>, <<"a">> }

NewContentFromText(text, role) ==
    Ptr([Parts |-> <<[Text |-> text]>>, Role |-> role])

EmptyConfig == [SystemInstruction |-> NilPtr, Tools |-> <<>>]

RECURSIVE SeqsUpTo(_, _)
SeqsUpTo(S, n) ==
    IF n = 0 THEN { <<>> }
    ELSE LET shorter == SeqsUpTo(S, n - 1)
         IN  shorter \cup { Append(s, x) : s \in shorter, x \in S }


\* ------------------------------------------------------ the request builder

EmptyMap == [n \in {} |-> NilTool]

MapPut(m, k, v) == [n \in DOMAIN m \cup {k} |-> IF n = k THEN v ELSE m[n]]

\* The registry as a map, whether or not the map was made yet.
Registry(tools) == IF IsNil(tools) THEN EmptyMap ELSE Deref(tools)

\* The declared-tool list of a generation configuration.
Declared(gc) == IF IsNil(gc) THEN <<>> ELSE Deref(gc).Tools

AppendInstructionsTo(gc, instructions) ==
    IF Len(instructions) = 0
    THEN [panicked |-> FALSE, GenerateConfig |-> gc]
    ELSE IF IsNil(gc)
    THEN \* r.GenerateConfig.SystemInstruction dereferences a nil pointer
         [panicked |-> TRUE, GenerateConfig |-> gc]
    ELSE LET inst == Join(instructions, SEP)
             current == Deref(gc).SystemInstruction
         IN  [panicked |-> FALSE,
              GenerateConfig |-> Ptr([Deref(gc) EXCEPT !.SystemInstruction =
                  IF /\ ~IsNil(current)
                     /\ Len(Deref(current).Parts) > 0
                     /\ Deref(current).Parts[1].Text # <<>>
                  THEN NewContentFromText(Deref(current).Parts[1].Text \o SEP \o inst, "")
                  ELSE NewContentFromText(inst, "")])]

\* The text of a system instruction; empty when there is none.
InstructionText(gc) ==
    IF IsNil(gc) THEN <<>>
    ELSE LET current == Deref(gc).SystemInstruction
         IN  IF IsNil(current) \/ Len(Deref(current).Parts) = 0 THEN <<>>
             ELSE Deref(current).Parts[1].Text

\* The checks without the lookup of the name in the registry.
CheckTool_noDuplicate(r, tool, i) ==
    IF tool.kind = "nil" \/ ToolName(tool) = ""
    THEN Ptr([kind |-> "nameless", index |-> i, name |-> ""])
    ELSE NilPtr

\* The checks of one loop iteration: nil or nameless, then duplicate.
CheckTool(r, tool, i) ==
    IF tool.kind = "nil" \/ ToolName(tool) = ""
    THEN Ptr([kind |-> "nameless", index |-> i, name |-> ""])
    ELSE IF ToolName(tool) \in DOMAIN Deref(r.Tools)
    THEN Ptr([kind |-> "duplicate", index |-> i, name |-> ToolName(tool)])
    ELSE NilPtr

\* The mutations with the declaration dropped when the generation
\* configuration had to be created first.
RegisterTool_dropsFirstDecl(r, tool) ==
    LET name == ToolName(tool)
        withTool == [r EXCEPT !.Tools = Ptr(MapPut(Deref(r.Tools), name, tool)),
                              !.order = Append(@, name)]
    IN  IF IsFunctionTool(tool)
        THEN IF IsNil(withTool.GenerateConfig)
             THEN [withTool EXCEPT !.GenerateConfig = Ptr(EmptyConfig)]
             ELSE LET decl == ToolDeclaration(tool)
                  IN  [withTool EXCEPT !.GenerateConfig =
                         IF ~IsNil(decl)
                         THEN Ptr([Deref(withTool.GenerateConfig) EXCEPT !.Tools =
                                     Append(@, [FunctionDeclarations |-> <<Deref(decl)>>])])
                         ELSE withTool.GenerateConfig]
        ELSE withTool

\* The mutations of one loop iteration: the registry entry, then the
\* declaration of a function tool.
RegisterTool(r, tool) ==
    LET name == ToolName(tool)
        withTool == [r EXCEPT !.Tools = Ptr(MapPut(Deref(r.Tools), name, tool)),
                              !.order = Append(@, name)]
    IN  IF IsFunctionTool(tool)
        THEN LET gc == IF IsNil(withTool.GenerateConfig)
                       THEN Ptr(EmptyConfig)
                       ELSE withTool.GenerateConfig
                 decl == ToolDeclaration(tool)
             IN  [withTool EXCEPT !.GenerateConfig =
                    IF ~IsNil(decl)
                    THEN Ptr([Deref(gc) EXCEPT !.Tools =
                                Append(@, [FunctionDeclarations |-> <<Deref(decl)>>])])
                    ELSE gc]
        ELSE withTool

RECURSIVE AppendToolsLoop(_, _, _)
AppendToolsLoop(r, tools, i) ==
    IF i > Len(tools) THEN r
    ELSE LET err == CheckTool(r, tools[i], i - 1)
         IN  IF ~IsNil(err)
             THEN [r EXCEPT !.err = err]
             ELSE AppendToolsLoop(RegisterTool(r, tools[i]), tools, i + 1)

AppendToolsTo(tools) ==
    AppendToolsLoop([Tools |-> IF IsNil(Tools) THEN Ptr(EmptyMap) ELSE Tools,
                     GenerateConfig |-> GenerateConfig,
                     order |-> order,
                     err |-> NilPtr],
                    tools, 1)

Nameless(tool) == tool.kind = "nil" \/ ToolName(tool) = ""

\* History: the batch holds named tools only, one of them under a name that
\* is a registry key when the call is made.
OffersRegisteredName(tools) ==
    /\ \A i \in 1 .. Len(tools) : ~Nameless(tools[i])
    /\ \E i \in 1 .. Len(tools) : ToolName(tools[i]) \in DOMAIN Registry(Tools)

\* History of the split calls AppendInstructions(A); AppendInstructions(B):
\* after the first, the state it started from and A; after the second, also B
\* and what the single call AppendInstructions(A, B) leaves from that state.
JointAfter(instructions, r) ==
    IF r.panicked \/ Len(instructions) # 1 THEN NilPtr
    ELSE IF ~IsNil(joint) /\ Deref(joint).stage = 1
    THEN Ptr([stage |-> 2,
              pre |-> Deref(joint).pre,
              A |-> Deref(joint).A,
              B |-> instructions[1],
              once |-> AppendInstructionsTo(Deref(joint).pre,
                                            <<Deref(joint).A, instructions[1]>>).GenerateConfig])
    ELSE Ptr([stage |-> 1, pre |-> GenerateConfig, A |-> instructions[1],
              B |-> <<>>, once |-> NilPtr])

AppendInstructions(instructions) ==
    LET r == AppendInstructionsTo(GenerateConfig, instructions)
    IN  /\ Len(InstructionText(r.GenerateConfig)) <= MaxTextLen
        /\ GenerateConfig' = r.GenerateConfig
        /\ last' = [op |-> "AppendInstructions", err |-> NilPtr, panicked |-> r.panicked,
                    offered |-> FALSE, repeat |-> FALSE]
        /\ joint' = JointAfter(instructions, r)
        /\ UNCHANGED <<Tools, fresh, order, processed, toolVars>>

AppendTools(tools) ==
    LET r == AppendToolsTo(tools)
    IN  /\ Tools' = r.Tools
        /\ GenerateConfig' = r.GenerateConfig
        /\ order' = r.order
        /\ last' = [op |-> "AppendTools", err |-> r.err, panicked |-> FALSE,
                    offered |-> OffersRegisteredName(tools), repeat |-> FALSE]
        /\ joint' = NilPtr
        /\ UNCHANGED <<fresh, processed, toolVars>>

ProcessRequest(f) ==
    LET r == AppendToolsTo(<<f>>)
    IN  /\ Tools' = r.Tools
        /\ GenerateConfig' = r.GenerateConfig
        /\ order' = r.order
        /\ last' = [op |-> "ProcessRequest", err |-> r.err, panicked |-> FALSE,
                    offered |-> OffersRegisteredName(<<f>>), repeat |-> f \in processed]
        /\ processed' = IF IsNil(r.err) THEN processed \cup {f} ELSE processed
        /\ joint' = NilPtr
        /\ UNCHANGED <<fresh, toolVars>>

\* -------------------------------------------------------- value converter

\* JSON values of a document: the type tag and, for an integer, its value.
JInt(n) == [type |-> "integer", n |-> n]

JString == [type |-> "string", n |-> 0]

\* The argument documents the callers pass to Run.
ArgDocuments ==
    { [A |-> JInt(2), B |-> JInt(3)],       \* matches the input schema
      [A |-> JInt(2)],                      \* required field B missing
      [A |-> JString, B |-> JInt(3)],       \* field A of the wrong type
      [A |-> JInt(6), B |-> JInt(0)] }      \* matches; divisor zero

\* Validation of a document against a resolved schema (nil: no validation):
\* every required field is present and every declared field has its type.
Validate(doc, schema) ==
    IF IsNil(schema) THEN NilPtr
    ELSE LET sc == Deref(schema).schema
             missing == { f \in sc.required : f \notin DOMAIN doc }
             mistyped == { f \in DOMAIN sc.props \cap DOMAIN doc : doc[f].type # sc.props[f] }
         IN  IF missing # {}
             THEN Ptr([kind |-> "conversion", cause |-> "missing", path |-> missing])
             ELSE IF mistyped # {}
             THEN Ptr([kind |-> "conversion", cause |-> "type", path |-> mistyped])
             ELSE NilPtr

ZeroArgs == [A |-> 0, B |-> 0]

\* ConvertToWithJSONSchema[map[string]any, TArgs]
ConvertArgs(args, schema) ==
    LET err == Validate(args, schema)
    IN  IF ~IsNil(err) THEN [value |-> ZeroArgs, err |-> err]
        ELSE [value |-> [f \in {"A", "B"} |->
                            IF f \in DOMAIN args /\ args[f].type = "integer"
                            THEN args[f].n ELSE 0],
              err |-> NilPtr]

\* ConvertToWithJSONSchema[TResults, map[string]any]
ConvertResults(output, schema) ==
    LET doc == [f \in DOMAIN output |-> JInt(output[f])]
        err == Validate(doc, schema)
    IN  IF ~IsNil(err) THEN [value |-> NilPtr, err |-> err]
        ELSE [value |-> Ptr(doc), err |-> NilPtr]

\* ------------------------------------------------------------ the handlers

\* "div" divides by its second argument: a zero divisor is a runtime panic.
HandlerPanics(handler, input) == handler = "div" /\ input.B = 0

HandlerResult(handler, input) ==
    IF handler = "add" THEN [Sum |-> input.A + input.B]
    ELSE [Sum |-> input.A \div input.B]

\* ------------------------------------------------------------------- Run

RunIds == 1 .. NumRuns

IdleRun ==
    [pc |-> "idle", args |-> NilPtr, input |-> ZeroArgs, calls |-> 0,
     handlerArg |-> ZeroArgs, output |-> NilPtr, result |-> NilPtr, err |-> NilPtr,
     canceled |-> FALSE]

\* Run going on to the handler with the zero value after a conversion error.
RunConvertInput_ignoresError(p, args) ==
    /\ runs[p].pc = "idle"
    /\ LET c == ConvertArgs(args, adapter.inputSchema)
       IN  runs' = [runs EXCEPT ![p] =
               [@ EXCEPT !.pc = "converted", !.args = Ptr(args), !.input = c.value]]
    /\ UNCHANGED <<reqVars, ctor, adapter, obs>>

\* Run dropping the adapter's input schema once it has validated with it.
RunConvertInput_dropsSchema(p, args) ==
    /\ runs[p].pc = "idle"
    /\ LET c == ConvertArgs(args, adapter.inputSchema)
       IN  runs' = [runs EXCEPT ![p] =
               IF ~IsNil(c.err)
               THEN [@ EXCEPT !.pc = "done", !.args = Ptr(args), !.err = c.err]
               ELSE [@ EXCEPT !.pc = "converted", !.args = Ptr(args), !.input = c.value]]
    /\ adapter' = [adapter EXCEPT !.inputSchema = NilPtr]
    /\ UNCHANGED <<reqVars, ctor, obs>>

\* Run is entered with args and converts them; a conversion error returns.
RunConvertInput(p, args) ==
    /\ runs[p].pc = "idle"
    /\ LET c == ConvertArgs(args, adapter.inputSchema)
       IN  runs' = [runs EXCEPT ![p] =
               IF ~IsNil(c.err)
               THEN [@ EXCEPT !.pc = "done", !.args = Ptr(args), !.err = c.err]
               ELSE [@ EXCEPT !.pc = "converted", !.args = Ptr(args), !.input = c.value]]
    /\ UNCHANGED <<reqVars, ctor, adapter, obs>>

\* Run calls the handler with the converted value.
RunInvokeHandler(p) ==
    /\ runs[p].pc = "converted"
    /\ runs' = [runs EXCEPT ![p] =
           [@ EXCEPT !.pc = "handler", !.calls = @ + 1, !.handlerArg = runs[p].input]]
    /\ UNCHANGED <<reqVars, ctor, adapter, obs>>

\* The handler returns its result to Run.
HandlerReturn(p) ==
    /\ runs[p].pc = "handler"
    /\ ~HandlerPanics(adapter.handler, runs[p].handlerArg)
    /\ runs' = [runs EXCEPT ![p] =
           [@ EXCEPT !.pc = "returned",
                     !.output = Ptr(HandlerResult(adapter.handler, runs[p].handlerArg))]]
    /\ UNCHANGED <<reqVars, ctor, adapter, obs>>

\* The handler panics; Run has no deferred recover, so the panic leaves Run.
HandlerPanic(p) ==
    /\ runs[p].pc = "handler"
    /\ HandlerPanics(adapter.handler, runs[p].handlerArg)
    /\ runs' = [runs EXCEPT ![p] = [@ EXCEPT !.pc = "panicked"]]
    /\ UNCHANGED <<reqVars, ctor, adapter, obs>>

\* Run converts the handler's result and returns the conversion's outcome.
RunConvertOutput(p) ==
    /\ runs[p].pc = "returned"
    /\ LET c == ConvertResults(Deref(runs[p].output), adapter.outputSchema)
       IN  runs' = [runs EXCEPT ![p] =
               [@ EXCEPT !.pc = "done", !.result = c.value, !.err = c.err]]
    /\ UNCHANGED <<reqVars, ctor, adapter, obs>>

\* The owner of the context passed to Run cancels it while the (slow)
\* handler is running.
Cancel(p) ==
    /\ runs[p].pc = "handler"
    /\ ~runs[p].canceled
    /\ runs' = [runs EXCEPT ![p] = [@ EXCEPT !.canceled = TRUE]]
    /\ UNCHANGED <<reqVars, ctor, adapter, obs>>

\* The accessors, called while Runs are in flight.
CallName ==
    /\ obs' = Ptr([call |-> "Name", value |-> Name(adapter)])
    /\ UNCHANGED <<reqVars, ctor, adapter, runs>>

CallDescription ==
    /\ obs' = Ptr([call |-> "Description", value |-> Description(adapter)])
    /\ UNCHANGED <<reqVars, ctor, adapter, runs>>

CallFunctionDeclaration ==
    /\ obs' = Ptr([call |-> "FunctionDeclaration", value |-> FunctionDeclaration(adapter)])
    /\ UNCHANGED <<reqVars, ctor, adapter, runs>>

InitialInstructions ==
    { NilPtr,
      Ptr([Parts |-> <<>>, Role |-> ""]),
      NewContentFromText(<<>>, ""),
      NewContentFromText(<<"s">>, "") }

DefaultConfig ==
    [Name |-> "add", Description |-> "sum", InputSchema |-> NilPtr, OutputSchema |-> NilPtr]

InitRequest ==
    /\ Tools = NilPtr
    /\ GenerateConfig \in
         {NilPtr} \cup { Ptr([EmptyConfig EXCEPT !.SystemInstruction = si]) :
                           si \in InitialInstructions }
    /\ fresh = (IsNil(Tools) /\ IsNil(GenerateConfig))
    /\ order = <<>>
    /\ last = [op |-> "none", err |-> NilPtr, panicked |-> FALSE, offered |-> FALSE,
               repeat |-> FALSE]
    /\ joint = NilPtr
    /\ processed = {}

Init ==
    /\ InitRequest
    /\ ctor = [cfg |-> DefaultConfig, handler |-> "add"]
    /\ adapter = Deref(NewFunctionTool(ctor.cfg, ctor.handler).tool)
    /\ runs = [p \in RunIds |-> IdleRun]
    /\ obs = NilPtr

Next ==
    \/ \E instructions \in SeqsUpTo(Instructions, MaxBatch) : AppendInstructions(instructions)
    \/ \E tools \in SeqsUpTo(ToolUniverse, MaxBatch) : AppendTools(tools)
    \/ \E f \in RequestAdapters : ProcessRequest(f)

Spec == Init /\ [][Next]_vars

\* The request while only tools are registered.
NextTools ==
    \/ \E tools \in SeqsUpTo(ToolUniverse, MaxBatch) : AppendTools(tools)
    \/ \E f \in RequestAdapters : ProcessRequest(f)

SpecTools == Init /\ [][NextTools]_vars

\* The adapter in use while a request is assembled on the side.
RunConfigs ==
    { c \in Configs : c.Name = "add" /\ c.Description = "sum" }

InitRun ==
    /\ Tools = NilPtr
    /\ GenerateConfig = NilPtr
    /\ fresh = (IsNil(Tools) /\ IsNil(GenerateConfig))
    /\ order = <<>>
    /\ last = [op |-> "none", err |-> NilPtr, panicked |-> FALSE, offered |-> FALSE,
               repeat |-> FALSE]
    /\ joint = NilPtr
    /\ processed = {}
    /\ ctor \in { [cfg |-> c, handler |-> h] : c \in RunConfigs, h \in Handlers }
    /\ IsNil(NewFunctionTool(ctor.cfg, ctor.handler).err)
    /\ adapter = Deref(NewFunctionTool(ctor.cfg, ctor.handler).tool)
    /\ runs = [p \in RunIds |-> IdleRun]
    /\ obs = NilPtr

NextRun ==
    \/ \E p \in RunIds, args \in ArgDocuments : RunConvertInput(p, args)
    \/ \E p \in RunIds : RunInvokeHandler(p)
    \/ \E p \in RunIds : HandlerReturn(p)
    \/ \E p \in RunIds : HandlerPanic(p)
    \/ \E p \in RunIds : RunConvertOutput(p)
    \/ \E p \in RunIds : Cancel(p)
    \/ CallName
    \/ CallDescription
    \/ CallFunctionDeclaration
    \/ ProcessRequest(adapter)

SpecRun == InitRun /\ [][NextRun]_vars

\* ------------------------------------------------------------ properties

Batches == SeqsUpTo(ToolUniverse, MaxBatch)

\* A later entry is named like an earlier entry of the batch or like a
\* tool already in the registry.
DuplicateBatch(tools) ==
    \E j \in 1 .. Len(tools) :
        /\ tools[j].kind # "nil"
        /\ \/ ToolName(tools[j]) \in DOMAIN Registry(Tools)
           \/ \E i \in 1 .. (j - 1) :
                tools[i].kind # "nil" /\ ToolName(tools[i]) = ToolName(tools[j])

\* C1: an AppendTools call whose batch repeats a name (within the batch or
\* against the registry) returns an error and leaves the registry without
\* any tool of the batch added and the declared-tool list as it was.
C1_AppendToolsAtomic ==
    [][\A tools \in Batches :
         (AppendTools(tools) /\ DuplicateBatch(tools))
            => /\ ~IsNil(last'.err)
               /\ Registry(Tools') = Registry(Tools)
               /\ Declared(GenerateConfig') = Declared(GenerateConfig)]_vars

\* C2: an AppendTools call whose batch holds a nil or nameless tool at any
\* position returns an error and leaves the registry's entries as they were.
C2_NamelessLeavesRegistry ==
    [][\A tools \in Batches :
         (AppendTools(tools) /\ \E i \in 1 .. Len(tools) : Nameless(tools[i]))
            => /\ ~IsNil(last'.err)
               /\ Registry(Tools') = Registry(Tools)]_vars

\* C3: AppendInstructions(A) followed by AppendInstructions(B) leaves the
\* system instruction text that AppendInstructions(A, B) leaves, and from
\* no system instruction that text is A, the separator, B.
C3_SplitEqualsJoint ==
    (~IsNil(joint) /\ Deref(joint).stage = 2)
        => /\ InstructionText(GenerateConfig) = InstructionText(Deref(joint).once)
           /\ IsNil(Deref(Deref(joint).pre).SystemInstruction)
                => InstructionText(GenerateConfig)
                     = Deref(joint).A \o SEP \o Deref(joint).B

\* The declarations the registry's tools offer, in registration order.
Declaring(name) ==
    /\ IsFunctionTool(Registry(Tools)[name])
    /\ ~IsNil(ToolDeclaration(Registry(Tools)[name]))

ExpectedDeclared ==
    LET names == SelectSeq(order, Declaring)
    IN  [i \in 1 .. Len(names) |->
            [FunctionDeclarations |-> <<Deref(ToolDeclaration(Registry(Tools)[names[i]]))>>]]

\* C4: the declared-tool list holds exactly one declaration for each tool
\* of the registry that offers one, in registration order, and nothing else.
C4_DeclaredMatchesRegistry ==
    /\ { order[i] : i \in 1 .. Len(order) } = DOMAIN Registry(Tools)
    /\ Len(order) = Cardinality(DOMAIN Registry(Tools))
    /\ Declared(GenerateConfig) = ExpectedDeclared

C4_Witness ==
    /\ last.op = "AppendTools" /\ ~IsNil(last.err)
    /\ order = <<"exit", "search", "add">>
    /\ Registry(Tools)["add"].kind = "function"
    /\ Len(Declared(GenerateConfig)) = 2

KeysAreNames ==
    \A n \in DOMAIN Registry(Tools) : n # "" /\ ToolName(Registry(Tools)[n]) = n

EntriesKept ==
    \A n \in DOMAIN Registry(Tools) :
        n \in DOMAIN Registry(Tools') /\ Registry(Tools')[n] = Registry(Tools)[n]

IsDuplicateError(err) == ~IsNil(err) /\ Deref(err).kind = "duplicate"

C6_PanicIntercepted ==
    \A p \in RunIds : runs[p].pc # "panicked"

\* C7: a Run whose context was canceled while the handler was running
\* returns a cancellation error, not the handler's result.
C7_CancelReturnsCancellation ==
    \A p \in RunIds :
        (runs[p].pc = "done" /\ runs[p].canceled)
            => /\ ~IsNil(runs[p].err) /\ Deref(runs[p].err).kind = "canceled"
               /\ IsNil(runs[p].result)

\* What Run returns for args on tool f when it runs alone.
RunOutcome(f, args) ==
    LET c == ConvertArgs(args, f.inputSchema)
    IN  IF ~IsNil(c.err) THEN [value |-> NilPtr, err |-> c.err]
        ELSE ConvertResults(HandlerResult(f.handler, c.value), f.outputSchema)

Constructed == Deref(NewFunctionTool(ctor.cfg, ctor.handler).tool)

\* C8: the adapter stays what NewFunctionTool returned under every
\* interleaving of Run, ProcessRequest and the accessors; the accessors
\* return the configured values; a Run that returned has returned what its
\* own arguments give.
C8_AdapterImmutable ==
    /\ adapter = Constructed
    /\ \A p \in RunIds :
         runs[p].pc = "done"
            => [value |-> runs[p].result, err |-> runs[p].err]
                 = RunOutcome(Constructed, Deref(runs[p].args))
    /\ (~IsNil(obs) /\ Deref(obs).call = "Name") => Deref(obs).value = ctor.cfg.Name
    /\ (~IsNil(obs) /\ Deref(obs).call = "Description")
         => Deref(obs).value = ctor.cfg.Description

C8_Witness ==
    /\ ~IsNil(obs)
    /\ processed # {}
    /\ \E p, q \in RunIds :
         /\ runs[p].pc = "done" /\ ~IsNil(runs[p].result)
         /\ runs[q].pc = "handler" /\ runs[q].args # runs[p].args

\* C9: when the conversion of the arguments fails Run returns that error,
\* no document, and the handler is not invoked; when it succeeds the handler
\* is invoked once with the converted value and Run returns the conversion
\* of the handler's result against the output schema.
C9_RunStepOrder ==
    \A p \in RunIds :
        runs[p].pc # "idle" =>
            LET c == ConvertArgs(Deref(runs[p].args), adapter.inputSchema)
            IN  IF ~IsNil(c.err)
                THEN /\ runs[p].pc = "done"
                     /\ runs[p].err = c.err
                     /\ IsNil(runs[p].result)
                     /\ runs[p].calls = 0
                ELSE /\ runs[p].pc = "converted" => runs[p].calls = 0
                     /\ runs[p].pc # "converted"
                          => runs[p].calls = 1 /\ runs[p].handlerArg = c.value
                     /\ runs[p].pc = "done"
                          => [value |-> runs[p].result, err |-> runs[p].err]
                               = ConvertResults(HandlerResult(adapter.handler, c.value),
                                                adapter.outputSchema)

C9_Witness ==
    \E p, q \in RunIds :
        /\ runs[p].pc = "done" /\ ~IsNil(runs[p].result) /\ runs[p].calls = 1
        /\ runs[q].pc = "done" /\ ~IsNil(runs[q].err) /\ runs[q].calls = 0

\* C10: on a freshly created request (no generation configuration, no
\* registry) no AppendInstructions or AppendTools call faults.
C10_NoFaultOnFreshRequest ==
    fresh => ~last.panicked

====
